---- MODULE Spec2Model ----
(***************************************************************************)
(* The data hooks of the solagram frontend as one state machine:           *)
(*   useUserProfile  (src/unnamed/part_001, lines 20-142)                  *)
(*   useComments     (src/unnamed/part_001, lines 161-286)                 *)
(*   useProfiles     (src/unnamed/part_001, lines 301-533)                 *)
(*   usePost         (src/frontend/src/components/hooks/usePost.ts)        *)
(* The hooks share no state: each keeps its own useState and useRef cells, *)
(* and usePost and useComments take from useUserProfile only profilePda, a *)
(* function of the wallet.  A behaviour of the four together is therefore  *)
(* an interleaving of behaviours of each with the wallet, and the model    *)
(* follows one mounted hook instance at a time (mounted).                  *)
(* React state (useState) and refs (useRef) of a hook are the fields of    *)
(* one record per hook; an async function that is suspended at an await    *)
(* is a continuation record in that hook's list of calls.  A continuation  *)
(* keeps the values its closure captured (the wallet of the render that    *)
(* created the callback), refs are read and written in place.              *)
(***************************************************************************)
EXTENDS Integers, Sequences, FiniteSets, TLC

\* ---------------------------------------------------------------- bounds
MaxInFlight == 2         \* suspended operations one hook instance may hold at once
MaxPosts == 2            \* length of a post scan result
MaxComments == 2         \* length of a comment scan result
MaxProfiles == 2         \* length of a profile scan result
MaxWrites == 1           \* submitted instructions one hook instance may await at once

\* ------------------------------------------------------------------ data
None == "none"                    \* null for string-valued state (keys, messages)
Null == [null |-> TRUE]           \* null for object-valued state
Wallets == {"A", "B"}             \* identities the wallet adapter can connect
Identities == {"A", "B", "C"}     \* public keys that occur on the ledger
PostKeys == {"P", "Q"}            \* post addresses comments are fetched for

\* PublicKey.toString(): the base58 text of a key, as a sequence of characters.
toString(pk) ==
    CASE pk = "A" -> <<"7", "x", "K", "X", "t", "g", "2", "C", "W", "8", "7">>
      [] pk = "B" -> <<"9", "W", "z", "D", "X", "w", "B", "b", "m", "k", "g">>
      [] OTHER    -> <<"9", "W", "z", "D", "X", "w", "B", "b", "Q", "r", "4">>

\* PublicKey.findProgramAddressSync(seeds, PROGRAM_ID)[0]: the derived address is
\* taken to be injective in its seeds.
findProgramAddressSync(seeds) == [seeds |-> seeds]

VARIABLES
    wallet,            \* useAnchorWallet(): the connected identity, or None
    useUserProfile,    \* [profile, isLoading, error, fetchingRef, lastWalletRef]
    profileCalls,      \* suspended fetchProfile continuations
    usePost,           \* [post, allPosts, posts, isLoading, error, fetchingRef]
    postCalls,         \* suspended fetchAllPosts / fetchAllUserPosts continuations
    useComments,       \* [comments, isLoading, error, fetchingRef]
    commentCalls,      \* suspended fetchCommentsForPost continuations
    useProfiles,       \* [profiles, isLoading, error, fetchingRef]
    profilesCalls,     \* suspended fetchAllProfiles continuations
    owner,             \* history: the closure wallet of the fetch that filled each collection
    last,              \* history: the step taken last
    mounted,           \* the hook instance under observation
    effectPending,     \* a render changed an effect's dependencies; the effect has not run
    writes             \* suspended write operations (an instruction submitted, not settled)

vars == <<wallet, useUserProfile, profileCalls, usePost, postCalls, useComments,
          commentCalls, useProfiles, profilesCalls, owner, last, mounted, effectPending,
          writes>>

\* ------------------------------------------------------------- sequences
\* The operations of the mounted hook that are suspended at an await.
Suspended ==
    Len(profileCalls) + Len(postCalls) + Len(commentCalls) + Len(profilesCalls)
        + Len(writes)

RemoveAt(q, i) == SubSeq(q, 1, i - 1) \o SubSeq(q, i + 1, Len(q))

\* A continuation outlives the wallet it was issued under: on a disconnect every
\* suspended continuation is marked (history only, the code keeps no such mark).
MarkStale(q, w) ==
    IF w = None THEN [i \in DOMAIN q |-> [q[i] EXCEPT !.stale = TRUE]] ELSE q

\* The step taken last: the operation, the path it took, the post or wallet it was
\* about, whether its continuation had been overtaken by a disconnect, whether it
\* stored fetched data, the multi-address reads its fetch cycle had issued, the
\* scan result, the addresses of the batch read and the batch read's answer, the
\* path the refresh fetch of an accepted write took, and what made an effect run.
Event(op, hook, outcome) ==
    [op |-> op, hook |-> hook, outcome |-> outcome, arg |-> None, stale |-> FALSE,
     applied |-> FALSE, reads |-> 0, value |-> <<>>, shared |-> FALSE,
     pdas |-> <<>>, accounts |-> <<>>, refresh |-> None, trigger |-> None,
     overtakenBy |-> None, allProfiles |-> <<>>]

\* -------------------------------------------------------- useUserProfile
\* "Prevent duplicate calls": the in-flight guard of fetchProfile.
ProfileGuardBlocks(h) == h.fetchingRef

\* "if same wallet, skip if already fetched": currentWalletKey is the closure's
\* wallet cw, profile is the closure's profile cp.
ProfileIsFresh(h, cw, cp) == cw = h.lastWalletRef /\ cp # Null

\* fetchProfile up to its first await, for a closure that captured wallet cw and
\* profile cp (program and profilePda are memoised from the wallet alone).
\* h is the hook's state, q its suspended calls; out says which path was taken.
fetchProfile(h, q, cw, cp) ==
    IF cw = None
    THEN [h |-> [h EXCEPT !.profile = Null], q |-> q, out |-> "nowallet"]
    ELSE IF ProfileGuardBlocks(h)
    THEN [h |-> h, q |-> q, out |-> "dropped"]
    ELSE IF ProfileIsFresh(h, cw, cp)
    THEN [h |-> h, q |-> q, out |-> "fresh"]
    ELSE [h |-> [h EXCEPT !.fetchingRef = TRUE, !.isLoading = TRUE, !.error = None],
          q |-> Append(q, [wallet |-> cw, stale |-> FALSE]),
          out |-> "issued"]

\* The hook's effect, run after a render in which wallet, program, profilePda or
\* fetchProfile (hence profile) changed.
useUserProfileEffect(h, q, w) ==
    IF w # None
    THEN fetchProfile(h, q, w, h.profile)
    ELSE [h |-> [h EXCEPT !.profile = Null, !.lastWalletRef = None], q |-> q,
          out |-> "cleared"]

\* The catch block without its "Account does not exist" branch: every rejection
\* is surfaced as an error.
ProfileSettle_NotFoundAsError(h, c, outcome) ==
    IF outcome = "ok"
    THEN [h EXCEPT !.profile = [authority |-> c.wallet], !.lastWalletRef = c.wallet]
    ELSE [h EXCEPT !.error = "error", !.lastWalletRef = c.wallet]

\* The try/catch of fetchProfile after program.account.userProfile.fetch settles
\* for continuation c: the account, "Account does not exist", or another error.
ProfileSettle(h, c, outcome) ==
    CASE outcome = "ok" ->
           [h EXCEPT !.profile = [authority |-> c.wallet], !.lastWalletRef = c.wallet]
      [] outcome = "notfound" ->
           [h EXCEPT !.profile = Null, !.lastWalletRef = c.wallet]
      [] OTHER ->
           [h EXCEPT !.error = "error", !.lastWalletRef = c.wallet]

\* The finally block of fetchProfile.
ProfileFinally(h) == [h EXCEPT !.isLoading = FALSE, !.fetchingRef = FALSE]

\* fetchProfile from its await to its end.
ProfileResume(h, q, i, outcome) ==
    [h |-> ProfileFinally(ProfileSettle(h, q[i], outcome)), q |-> RemoveAt(q, i)]

\* setProfile with a new object, or with null in place of an object, changes
\* profile, so the render gives a new fetchProfile callback and the effect of
\* lines 125-132, which depends on it, runs again.
ProfileChanged(h, outcome) == outcome = "ok" \/ (outcome = "notfound" /\ h.profile # Null)

ProfileOwner(h, c, outcome, old) ==
    IF h.profile = Null THEN None
    ELSE IF outcome = "ok" THEN c.wallet ELSE old

\* A caller invokes refetch (fetchProfile of the current render).
RefetchProfile ==
    /\ mounted = "useUserProfile"
    /\ ~effectPending
    /\ Suspended < MaxInFlight
    /\ LET r == fetchProfile(useUserProfile, profileCalls, wallet, useUserProfile.profile)
       IN  /\ useUserProfile' = r.h
           /\ profileCalls' = r.q
           /\ last' = Event("fetchProfile", "useUserProfile", r.out)
           /\ owner' = [owner EXCEPT !.profile = IF r.h.profile = Null THEN None ELSE @]
    /\ UNCHANGED <<wallet, usePost, postCalls, useComments, commentCalls, useProfiles,
                   profilesCalls, mounted, effectPending, writes>>

\* The remote read of a suspended fetchProfile settles.
ResolveProfile(i, outcome) ==
    /\ i \in DOMAIN profileCalls
    /\ LET c == profileCalls[i]
           r == ProfileResume(useUserProfile, profileCalls, i, outcome)
       IN  /\ useUserProfile' = r.h
           /\ profileCalls' = r.q
           /\ last' = [Event("resolveProfile", "useUserProfile", outcome) EXCEPT
                         !.arg = c.wallet, !.stale = c.stale, !.applied = outcome = "ok",
                         !.trigger = IF effectPending THEN last.trigger ELSE outcome]
           /\ owner' = [owner EXCEPT !.profile = ProfileOwner(r.h, c, outcome, @)]
           /\ effectPending' = (effectPending \/ ProfileChanged(useUserProfile, outcome))
    /\ UNCHANGED <<wallet, usePost, postCalls, useComments, commentCalls, useProfiles,
                   profilesCalls, mounted, writes>>

\* --------------------------------------------------------------- usePost
\* A JavaScript Map as its entries in insertion order.
MapHas(m, k) == \E i \in DOMAIN m : m[i][1] = k

MapGet(m, k) == m[CHOOSE i \in DOMAIN m : m[i][1] = k][2]

MapSet(m, k, v) ==
    IF MapHas(m, k)
    THEN [i \in DOMAIN m |-> IF m[i][1] = k THEN <<k, v>> ELSE m[i]]
    ELSE Append(m, <<k, v>>)

\* The posts on the ledger a scan can return: program.account.post.all() gives
\* {publicKey, account: {creator, createdAt, ...}} in an order the node chooses.
PostUniverse ==
    { [publicKey |-> 1, creator |-> "A", createdAt |-> 10],
      [publicKey |-> 2, creator |-> "C", createdAt |-> 20],
      [publicKey |-> 3, creator |-> "A", createdAt |-> 20],
      [publicKey |-> 4, creator |-> "B", createdAt |-> 10] }

RECURSIVE SeqsUpTo(_, _)
SeqsUpTo(S, n) ==
    IF n = 0 THEN {<<>>}
    ELSE LET shorter == SeqsUpTo(S, n - 1)
         IN  shorter \cup {Append(s, x) : s \in shorter, x \in S}

Distinct(s) == \A i, j \in DOMAIN s : i # j => s[i] # s[j]

PostScanResults == {s \in SeqsUpTo(PostUniverse, MaxPosts) : Distinct(s)}

\* What a remote read settles with: a value, or a rejection.
Ok(v) == [ok |-> TRUE, value |-> v]
Failure == [ok |-> FALSE, value |-> <<>>]

\* Handles a userProfile account can carry, as character sequences.
Handles == {<<>>, <<"a", "l", "i">>}

\* One slot of getMultipleAccountsInfo's answer: null, an account that decodes as
\* a userProfile, or an account whose data does not decode.
AccountInfos ==
    {Null, [data |-> [kind |-> "garbage"]]}
        \cup {[data |-> [kind |-> "userProfile", handle |-> h]] : h \in Handles}

\* program.coder.accounts.decode("userProfile", data) throws on other data.
DecodeThrows(accountInfo) == accountInfo.data.kind # "userProfile"

\* The deduplication left out: one entry per scanned post.
uniqueCreators_NoDedup(resp) ==
    [i \in DOMAIN resp |-> <<toString(resp[i].creator), resp[i].creator>>]

\* "Get unique creators": a Map keyed by creator.toString(), first occurrence kept.
RECURSIVE uniqueCreators(_)
uniqueCreators(resp) ==
    IF resp = <<>> THEN <<>>
    ELSE LET m == uniqueCreators(SubSeq(resp, 1, Len(resp) - 1))
             creator == resp[Len(resp)].creator
             creatorKey == toString(creator)
         IN  IF ~MapHas(m, creatorKey) THEN MapSet(m, creatorKey, creator) ELSE m

\* "Derive all profile PDAs": creatorToPda, keyed like uniqueCreators.
creatorToPda(uc) ==
    [i \in DOMAIN uc |-> <<toString(uc[i][2]), findProgramAddressSync(<<"profile", uc[i][2]>>)>>]

profilePdas(uc) == [i \in DOMAIN uc |-> findProgramAddressSync(<<"profile", uc[i][2]>>)]

\* "Create a map of profile PDA to handle": the forEach over profileAccounts, up
\* to index n.
RECURSIVE profileMap(_, _, _, _)
profileMap(profileAccounts, pdas, c2p, n) ==
    IF n = 0 THEN <<>>
    ELSE LET m == profileMap(profileAccounts, pdas, c2p, n - 1)
             accountInfo == profileAccounts[n]
         IN  IF accountInfo = Null THEN m
             ELSE IF DecodeThrows(accountInfo) THEN m
             ELSE LET found == {i \in DOMAIN c2p : c2p[i][2] = pdas[n]}
                  IN  IF found = {} THEN m
                      ELSE LET first == CHOOSE i \in found : \A j \in found : i <= j
                           IN  MapSet(m, c2p[first][1], accountInfo.data.handle)

\* `User ${creatorKey.slice(0, 8)}...`
Placeholder(creatorKey) ==
    <<"U", "s", "e", "r", " ">> \o SubSeq(creatorKey, 1, 8) \o <<".", ".", ".">>

\* The fallback left out: a creator without a decoded profile gets no label.
HandleFor_NoFallback(pm, creatorKey) ==
    IF MapHas(pm, creatorKey) THEN MapGet(pm, creatorKey) ELSE <<>>

\* profileMap.get(creatorKey) || placeholder: a missing or empty handle is falsy.
HandleFor(pm, creatorKey) ==
    IF MapHas(pm, creatorKey) /\ MapGet(pm, creatorKey) # <<>>
    THEN MapGet(pm, creatorKey)
    ELSE Placeholder(creatorKey)

\* "Map posts with handles"
postsWithHandles(resp, pm) ==
    [i \in DOMAIN resp |->
        [publicKey |-> resp[i].publicKey, creator |-> resp[i].creator,
         createdAt |-> resp[i].createdAt,
         creatorHandle |-> HandleFor(pm, toString(resp[i].creator))]]

\* The comparator turned round: oldest first.
PostCompare_Ascending(a, b) == a.createdAt - b.createdAt

\* The comparator of the post sort: negative when a goes before b.
PostCompare(a, b) == b.createdAt - a.createdAt

\* Array.prototype.sort is stable: an element goes behind every earlier element
\* the comparator does not put after it.
RECURSIVE InsertPost(_, _)
InsertPost(s, x) ==
    IF s = <<>> THEN <<x>>
    ELSE LET y == s[Len(s)]
         IN  IF PostCompare(y, x) <= 0
             THEN Append(s, x)
             ELSE Append(InsertPost(SubSeq(s, 1, Len(s) - 1), x), y)

RECURSIVE SortPosts(_)
SortPosts(s) ==
    IF s = <<>> THEN <<>>
    ELSE InsertPost(SortPosts(SubSeq(s, 1, Len(s) - 1)), s[Len(s)])

sortedPosts(pwh) == SortPosts(pwh)

\* The guard left out: every call goes through.
PostGuardBlocks_Never(h) == FALSE

\* "Prevent duplicate calls": the in-flight guard of fetchAllPosts.
PostGuardBlocks(h) == h.fetchingRef

PostCall(fn, cw) ==
    [fn |-> fn, pc |-> "scan", wallet |-> cw, stale |-> FALSE, resp |-> <<>>,
     pdas |-> <<>>, reads |-> 0]

\* fetchAllPosts up to its first await (program.account.post.all()).
fetchAllPosts(h, q, cw) ==
    IF cw = None
    THEN [h |-> h, q |-> q, out |-> "nowallet"]
    ELSE IF PostGuardBlocks(h)
    THEN [h |-> h, q |-> q, out |-> "dropped"]
    ELSE [h |-> [h EXCEPT !.fetchingRef = TRUE, !.isLoading = TRUE],
          q |-> Append(q, PostCall("fetchAllPosts", cw)),
          out |-> "issued"]

\* The guard reset left out of the finally block.
PostFinally_KeepGuard(h) == [h EXCEPT !.isLoading = FALSE]

\* The finally block of fetchAllPosts.
PostFinally(h) == [h EXCEPT !.isLoading = FALSE, !.fetchingRef = FALSE]

\* A catch block that also drops the list.
PostCatch_ClearsPosts(h) == [h EXCEPT !.error = "error", !.allPosts = <<>>]

\* The catch block of fetchAllPosts: err.message || "Failed to fetch posts".
PostCatch(h) == [h EXCEPT !.error = "error"]

\* One profile read per scanned post instead of one read for all of them.
PostBatchReads_PerPost(resp) == Len(resp)

\* "Batch fetch all profiles in one RPC call": the getMultipleAccountsInfo calls
\* one cycle makes for the scanned posts.
PostBatchReads(resp) == 1

\* fetchAllPosts from the scan's answer to its second await, or to its end when
\* the scan was rejected.
PostScanResume(h, q, i, result) ==
    IF result.ok
    THEN [h |-> h,
          q |-> [q EXCEPT ![i] = [@ EXCEPT !.pc = "batch", !.resp = result.value,
                                           !.pdas = profilePdas(uniqueCreators(result.value)),
                                           !.reads = @ + PostBatchReads(result.value)]]]
    ELSE [h |-> PostFinally(PostCatch(h)), q |-> RemoveAt(q, i)]

\* Lines 196-236: the merged, sorted list handed to setAllPosts.
MergedPosts(resp, pdas, profileAccounts) ==
    LET pm == profileMap(profileAccounts, pdas, creatorToPda(uniqueCreators(resp)),
                         Len(profileAccounts))
    IN  sortedPosts(postsWithHandles(resp, pm))

\* fetchAllPosts from the batch read's answer to its end.
PostBatchResume(h, q, i, result) ==
    IF result.ok
    THEN [h |-> PostFinally([h EXCEPT !.allPosts =
                    MergedPosts(q[i].resp, q[i].pdas, result.value)]),
          q |-> RemoveAt(q, i)]
    ELSE [h |-> PostFinally(PostCatch(h)), q |-> RemoveAt(q, i)]

\* What getMultipleAccountsInfo can answer for n addresses.
BatchResults(n) == {Ok(a) : a \in [1..n -> AccountInfos]} \cup {Failure}

\* fetchAllUserPosts up to its await: no guard, no loading flag.
fetchAllUserPosts(h, q, cw) ==
    IF cw = None
    THEN [h |-> h, q |-> q, out |-> "nowallet"]
    ELSE [h |-> h, q |-> Append(q, PostCall("fetchAllUserPosts", cw)), out |-> "issued"]

\* fetchAllUserPosts from the scan's answer to its end.
UserPostsResume(h, q, i, result) ==
    IF result.ok
    THEN [h |-> [h EXCEPT !.posts = result.value], q |-> RemoveAt(q, i)]
    ELSE [h |-> [h EXCEPT !.error = "error"], q |-> RemoveAt(q, i)]

\* The memcmp filter on the profile address: the posts of one creator.
UserPostScanResults(results, cw) ==
    {s \in results : \A i \in DOMAIN s : s[i].creator = cw}

\* fetchPost up to its await (program.account.post.fetch): no guard, no flag.
fetchPost(h, q, cw) ==
    IF cw = None
    THEN [h |-> h, q |-> q, out |-> "nowallet"]
    ELSE [h |-> h, q |-> Append(q, PostCall("fetchPost", cw)), out |-> "issued"]

\* fetchPost from the read's answer to its end: setPost, or {success: false}.
PostFetchResume(h, q, i, result) ==
    IF result.ok
    THEN [h |-> [h EXCEPT !.post = [creator |-> q[i].wallet]], q |-> RemoveAt(q, i)]
    ELSE [h |-> h, q |-> RemoveAt(q, i)]

\* A caller invokes fetchPost of the current render.
FetchPost ==
    /\ mounted = "usePost"
    /\ ~effectPending
    /\ Suspended < MaxInFlight
    /\ LET r == fetchPost(usePost, postCalls, wallet)
       IN  /\ usePost' = r.h
           /\ postCalls' = r.q
           /\ last' = Event("fetchPost", "usePost", r.out)
    /\ UNCHANGED <<wallet, useUserProfile, profileCalls, useComments, commentCalls,
                   useProfiles, profilesCalls, owner, mounted, effectPending, writes>>

\* program.account.post.fetch of a suspended fetchPost settles.
ResolvePost(i, result) ==
    /\ i \in DOMAIN postCalls
    /\ postCalls[i].fn = "fetchPost"
    /\ LET c == postCalls[i]
           r == PostFetchResume(usePost, postCalls, i, result)
       IN  /\ usePost' = r.h
           /\ postCalls' = r.q
           /\ last' = [Event("resolvePost", "usePost",
                              IF result.ok THEN "ok" ELSE "error") EXCEPT
                         !.stale = c.stale, !.applied = result.ok]
    /\ UNCHANGED <<wallet, useUserProfile, profileCalls, useComments, commentCalls,
                   useProfiles, profilesCalls, owner, mounted, effectPending, writes>>

\* A caller invokes fetchAllPosts of the current render.
FetchAllPosts ==
    /\ mounted = "usePost"
    /\ ~effectPending
    /\ Suspended < MaxInFlight
    /\ LET r == fetchAllPosts(usePost, postCalls, wallet)
       IN  /\ usePost' = r.h
           /\ postCalls' = r.q
           /\ last' = Event("fetchAllPosts", "usePost", r.out)
    /\ UNCHANGED <<wallet, useUserProfile, profileCalls, useComments, commentCalls,
                   useProfiles, profilesCalls, owner, mounted, effectPending, writes>>

\* A caller invokes refetchAllPosts (fetchAllUserPosts of the current render).
FetchAllUserPosts ==
    /\ mounted = "usePost"
    /\ ~effectPending
    /\ Suspended < MaxInFlight
    /\ LET r == fetchAllUserPosts(usePost, postCalls, wallet)
       IN  /\ usePost' = r.h
           /\ postCalls' = r.q
           /\ last' = Event("fetchAllUserPosts", "usePost", r.out)
    /\ UNCHANGED <<wallet, useUserProfile, profileCalls, useComments, commentCalls,
                   useProfiles, profilesCalls, owner, mounted, effectPending, writes>>

\* program.account.post.all() of a suspended fetchAllPosts settles.
ResolvePostScan(i, result) ==
    /\ i \in DOMAIN postCalls
    /\ postCalls[i].fn = "fetchAllPosts" /\ postCalls[i].pc = "scan"
    /\ LET c == postCalls[i]
           r == PostScanResume(usePost, postCalls, i, result)
       IN  /\ usePost' = r.h
           /\ postCalls' = r.q
           /\ last' = [Event("resolvePostScan", "usePost",
                              IF result.ok THEN "ok" ELSE "error") EXCEPT
                         !.stale = c.stale,
                         !.reads = IF result.ok THEN r.q[i].reads ELSE c.reads]
    /\ UNCHANGED <<wallet, useUserProfile, profileCalls, useComments, commentCalls,
                   useProfiles, profilesCalls, owner, mounted, effectPending, writes>>

\* getMultipleAccountsInfo of a suspended fetchAllPosts settles.
ResolvePostBatch(i, result) ==
    /\ i \in DOMAIN postCalls
    /\ postCalls[i].fn = "fetchAllPosts" /\ postCalls[i].pc = "batch"
    /\ LET c == postCalls[i]
           r == PostBatchResume(usePost, postCalls, i, result)
       IN  /\ usePost' = r.h
           /\ postCalls' = r.q
           /\ last' = [Event("resolvePostBatch", "usePost",
                              IF result.ok THEN "ok" ELSE "error") EXCEPT
                         !.stale = c.stale, !.applied = result.ok, !.reads = c.reads,
                         !.value = c.resp, !.pdas = c.pdas, !.accounts = result.value]
           /\ owner' = [owner EXCEPT !.allPosts = IF result.ok THEN c.wallet ELSE @]
    /\ UNCHANGED <<wallet, useUserProfile, profileCalls, useComments, commentCalls,
                   useProfiles, profilesCalls, mounted, effectPending, writes>>

\* The scan of a suspended fetchAllUserPosts settles.
ResolveUserPosts(i, result) ==
    /\ i \in DOMAIN postCalls
    /\ postCalls[i].fn = "fetchAllUserPosts"
    /\ LET c == postCalls[i]
           r == UserPostsResume(usePost, postCalls, i, result)
       IN  /\ usePost' = r.h
           /\ postCalls' = r.q
           /\ last' = [Event("resolveUserPosts", "usePost",
                              IF result.ok THEN "ok" ELSE "error") EXCEPT
                         !.stale = c.stale, !.applied = result.ok]
           /\ owner' = [owner EXCEPT !.posts = IF result.ok THEN c.wallet ELSE @]
    /\ UNCHANGED <<wallet, useUserProfile, profileCalls, useComments, commentCalls,
                   useProfiles, profilesCalls, mounted, effectPending, writes>>

\* ----------------------------------------------------------- useComments
\* The comment accounts a scan for one post can return, in the node's order.
CommentUniverse(postKey) ==
    { [publicKey |-> 1, post |-> postKey, content |-> "x", createdAt |-> 10],
      [publicKey |-> 2, post |-> postKey, content |-> "y", createdAt |-> 20],
      [publicKey |-> 3, post |-> postKey, content |-> "z", createdAt |-> 20] }

CommentScanResults(postKey) ==
    {s \in SeqsUpTo(CommentUniverse(postKey), MaxComments) : Distinct(s)}

\* The guard left out: every call goes through.
CommentGuardBlocks_Never(h, postKey) == FALSE

\* "Prevent duplicate calls for the same post": fetchingRef holds one post key.
CommentGuardBlocks(h, postKey) == h.fetchingRef = postKey

\* fetchCommentsForPost up to its await; only program (hence the wallet) is checked.
fetchCommentsForPost(h, q, cw, postKey) ==
    IF cw = None
    THEN [h |-> h, q |-> q, out |-> "nowallet"]
    ELSE IF CommentGuardBlocks(h, postKey)
    THEN [h |-> h, q |-> q, out |-> "dropped"]
    ELSE [h |-> [h EXCEPT !.fetchingRef = postKey, !.isLoading = TRUE, !.error = None],
          q |-> Append(q, [post |-> postKey, wallet |-> cw, stale |-> FALSE,
                           shared |-> FALSE, overtakenBy |-> None]),
          out |-> "issued"]

\* "Convert to our interface format"
commentsList(postComments) ==
    [i \in DOMAIN postComments |->
        [post |-> postComments[i].post, content |-> postComments[i].content,
         createdAt |-> postComments[i].createdAt]]

\* The comparator turned round: newest first.
CommentCompare_Descending(a, b) == b.createdAt - a.createdAt

\* The comparator of the comment sort: negative when a goes before b.
CommentCompare(a, b) == a.createdAt - b.createdAt

RECURSIVE InsertComment(_, _)
InsertComment(s, x) ==
    IF s = <<>> THEN <<x>>
    ELSE LET y == s[Len(s)]
         IN  IF CommentCompare(y, x) <= 0
             THEN Append(s, x)
             ELSE Append(InsertComment(SubSeq(s, 1, Len(s) - 1), x), y)

\* "Sort by creation time (oldest first)"
RECURSIVE SortComments(_)
SortComments(s) ==
    IF s = <<>> THEN <<>>
    ELSE InsertComment(SortComments(SubSeq(s, 1, Len(s) - 1)), s[Len(s)])

\* The finally block of fetchCommentsForPost.
CommentFinally(h) == [h EXCEPT !.isLoading = FALSE, !.fetchingRef = None]

\* fetchCommentsForPost from the scan's answer to its end.
CommentsResume(h, q, i, result) ==
    IF result.ok
    THEN [h |-> CommentFinally([h EXCEPT !.comments = SortComments(commentsList(result.value))]),
          q |-> RemoveAt(q, i)]
    ELSE [h |-> CommentFinally([h EXCEPT !.error = "error"]), q |-> RemoveAt(q, i)]

\* History: the scan of call i stored its comments, so every call requested before
\* it and still suspended has been overtaken by the post of call i.
MarkOvertaken(q, i) ==
    [j \in DOMAIN q |-> IF j < i THEN [q[j] EXCEPT !.overtakenBy = q[i].post] ELSE q[j]]

\* History: a dropped call relies on the newest suspended scan for its post.
MarkShared(q, postKey) ==
    LET for == {i \in DOMAIN q : q[i].post = postKey}
    IN  IF for = {} THEN q
        ELSE LET newest == CHOOSE i \in for : \A j \in for : j <= i
             IN  [q EXCEPT ![newest].shared = TRUE]

\* A caller invokes fetchCommentsForPost(postKey) of the current render.
FetchCommentsForPost(postKey) ==
    /\ mounted = "useComments"
    /\ ~effectPending
    /\ Suspended < MaxInFlight
    /\ LET r == fetchCommentsForPost(useComments, commentCalls, wallet, postKey)
       IN  /\ useComments' = r.h
           /\ commentCalls' = IF r.out = "dropped" THEN MarkShared(r.q, postKey) ELSE r.q
           /\ last' = [Event("fetchCommentsForPost", "useComments", r.out) EXCEPT
                         !.arg = postKey]
    /\ UNCHANGED <<wallet, useUserProfile, profileCalls, usePost, postCalls,
                   useProfiles, profilesCalls, owner, mounted, effectPending, writes>>

\* program.account.comment.all([memcmp]) of a suspended call settles.
ResolveComments(i, result) ==
    /\ i \in DOMAIN commentCalls
    /\ LET c == commentCalls[i]
           r == CommentsResume(useComments,
                               IF result.ok THEN MarkOvertaken(commentCalls, i)
                               ELSE commentCalls, i, result)
       IN  /\ useComments' = r.h
           /\ commentCalls' = r.q
           /\ last' = [Event("resolveComments", "useComments",
                              IF result.ok THEN "ok" ELSE "error") EXCEPT
                         !.arg = c.post, !.stale = c.stale, !.applied = result.ok,
                         !.value = result.value, !.shared = c.shared,
                         !.overtakenBy = c.overtakenBy]
           /\ owner' = [owner EXCEPT !.comments = IF result.ok THEN c.wallet ELSE @]
    /\ UNCHANGED <<wallet, useUserProfile, profileCalls, usePost, postCalls,
                   useProfiles, profilesCalls, mounted, effectPending, writes>>

\* ----------------------------------------------------------- useProfiles
\* The userProfile accounts a scan can return: one per authority.
ProfileUniverse == {[authority |-> a] : a \in Identities}

ProfileScanResults == {s \in SeqsUpTo(ProfileUniverse, MaxProfiles) : Distinct(s)}

deriveFollowPda(follower, following) ==
    findProgramAddressSync(<<"follow", follower, following>>)

\* One slot of getMultipleAccountsInfo's answer for a follow address.
FollowInfos == {Null, [data |-> [kind |-> "follow"]]}

FollowResults(n) == {Ok(a) : a \in [1..n -> FollowInfos]} \cup {Failure}

\* "Prevent duplicate calls": the in-flight guard of fetchAllProfiles.
ProfilesGuardBlocks(h) == h.fetchingRef

\* fetchAllProfiles up to its first await (program.account.userProfile.all()).
fetchAllProfiles(h, q, cw) ==
    IF cw = None
    THEN [h |-> h, q |-> q, out |-> "nowallet"]
    ELSE IF ProfilesGuardBlocks(h)
    THEN [h |-> h, q |-> q, out |-> "dropped"]
    ELSE [h |-> [h EXCEPT !.fetchingRef = TRUE, !.isLoading = TRUE, !.error = None],
          q |-> Append(q, [pc |-> "scan", wallet |-> cw, stale |-> FALSE,
                           allProfiles |-> <<>>, resp |-> <<>>, pdas |-> <<>>,
                           reads |-> 0]),
          out |-> "issued"]

\* The hook's effect, run after a render in which the wallet changed.
useProfilesEffect(h, q, w) ==
    IF w # None
    THEN fetchAllProfiles(h, q, w)
    ELSE [h |-> [h EXCEPT !.profiles = <<>>], q |-> q, out |-> "cleared"]

\* The finally block of fetchAllProfiles.
ProfilesFinally(h) == [h EXCEPT !.isLoading = FALSE, !.fetchingRef = FALSE]

\* The filter left out: the actor's own profile stays in the list.
otherProfiles_NoFilter(allProfiles, cw) == allProfiles

\* "Filter out current user's profile"
otherProfiles(allProfiles, cw) == SelectSeq(allProfiles, LAMBDA p : p.authority # cw)

\* "Derive all follow PDAs at once"
followPdas(others, cw) ==
    [i \in DOMAIN others |-> deriveFollowPda(cw, others[i].authority)]

\* "Batch fetch all follow accounts in ONE RPC call": the getMultipleAccountsInfo
\* calls batchCheckFollowStatus makes for the given authorities.
FollowBatchReads(profileAuthorities) == 1

\* fetchAllProfiles from the scan's answer to the await in batchCheckFollowStatus,
\* or to its end when the scan was rejected.
ProfilesScanResume(h, q, i, result) ==
    IF result.ok
    THEN LET others == otherProfiles(result.value, q[i].wallet)
         IN  [h |-> h,
              q |-> [q EXCEPT ![i] = [@ EXCEPT !.pc = "batch", !.resp = others,
                                               !.allProfiles = result.value,
                                               !.pdas = followPdas(others, q[i].wallet),
                                               !.reads = @ + FollowBatchReads(others)]]]
    ELSE [h |-> ProfilesFinally([h EXCEPT !.error = "error"]), q |-> RemoveAt(q, i)]

\* batchCheckFollowStatus after its await: the result map, up to index n.
RECURSIVE resultMap(_, _, _, _)
resultMap(followAccounts, pdas, a2p, n) ==
    IF n = 0 THEN <<>>
    ELSE LET m == resultMap(followAccounts, pdas, a2p, n - 1)
             accountInfo == followAccounts[n]
             followPda == pdas[n]
             found == {i \in DOMAIN a2p : a2p[i][2] = followPda}
         IN  IF found = {} THEN m
             ELSE LET first == CHOOSE i \in found : \A j \in found : i <= j
                  IN  MapSet(m, a2p[first][1],
                             [isFollowing |-> accountInfo # Null,
                              followPda |-> IF accountInfo # Null THEN followPda ELSE Null])

RECURSIVE authorityToFollowPda(_, _)
authorityToFollowPda(others, cw) ==
    IF others = <<>> THEN <<>>
    ELSE LET authority == others[Len(others)].authority
         IN  MapSet(authorityToFollowPda(SubSeq(others, 1, Len(others) - 1), cw),
                    toString(authority), deriveFollowPda(cw, authority))

\* "Build profiles with follow status"
profilesWithStatus(others, pdas, followAccounts, cw) ==
    LET followStatusMap == resultMap(followAccounts, pdas,
                                     authorityToFollowPda(others, cw), Len(followAccounts))
    IN  [i \in DOMAIN others |->
            LET authorityKey == toString(others[i].authority)
                followStatus == IF MapHas(followStatusMap, authorityKey)
                                THEN MapGet(followStatusMap, authorityKey)
                                ELSE [isFollowing |-> FALSE, followPda |-> Null]
            IN  [authority |-> others[i].authority,
                 isFollowing |-> followStatus.isFollowing,
                 followPda |-> followStatus.followPda]]

\* fetchAllProfiles from the batch read's answer to its end.
ProfilesBatchResume(h, q, i, result) ==
    IF result.ok
    THEN [h |-> ProfilesFinally([h EXCEPT !.profiles =
                    profilesWithStatus(q[i].resp, q[i].pdas, result.value, q[i].wallet)]),
          q |-> RemoveAt(q, i)]
    ELSE [h |-> ProfilesFinally([h EXCEPT !.error = "error"]), q |-> RemoveAt(q, i)]

\* A caller invokes refetch (fetchAllProfiles of the current render).
RefetchProfiles ==
    /\ mounted = "useProfiles"
    /\ ~effectPending
    /\ Suspended < MaxInFlight
    /\ LET r == fetchAllProfiles(useProfiles, profilesCalls, wallet)
       IN  /\ useProfiles' = r.h
           /\ profilesCalls' = r.q
           /\ last' = Event("fetchAllProfiles", "useProfiles", r.out)
    /\ UNCHANGED <<wallet, useUserProfile, profileCalls, usePost, postCalls,
                   useComments, commentCalls, owner, mounted, effectPending, writes>>

\* program.account.userProfile.all() of a suspended fetchAllProfiles settles.
ResolveProfilesScan(i, result) ==
    /\ i \in DOMAIN profilesCalls
    /\ profilesCalls[i].pc = "scan"
    /\ LET c == profilesCalls[i]
           r == ProfilesScanResume(useProfiles, profilesCalls, i, result)
       IN  /\ useProfiles' = r.h
           /\ profilesCalls' = r.q
           /\ last' = [Event("resolveProfilesScan", "useProfiles",
                              IF result.ok THEN "ok" ELSE "error") EXCEPT
                         !.stale = c.stale,
                         !.reads = IF result.ok THEN r.q[i].reads ELSE c.reads]
    /\ UNCHANGED <<wallet, useUserProfile, profileCalls, usePost, postCalls,
                   useComments, commentCalls, owner, mounted, effectPending, writes>>

\* getMultipleAccountsInfo of a suspended fetchAllProfiles settles.
ResolveProfilesBatch(i, result) ==
    /\ i \in DOMAIN profilesCalls
    /\ profilesCalls[i].pc = "batch"
    /\ LET c == profilesCalls[i]
           r == ProfilesBatchResume(useProfiles, profilesCalls, i, result)
       IN  /\ useProfiles' = r.h
           /\ profilesCalls' = r.q
           /\ last' = [Event("resolveProfilesBatch", "useProfiles",
                              IF result.ok THEN "ok" ELSE "error") EXCEPT
                         !.stale = c.stale, !.applied = result.ok, !.reads = c.reads,
                         !.value = c.resp, !.pdas = c.pdas, !.accounts = result.value,
                         !.allProfiles = c.allProfiles]
           /\ owner' = [owner EXCEPT !.profiles = IF result.ok THEN c.wallet ELSE @]
    /\ UNCHANGED <<wallet, useUserProfile, profileCalls, usePost, postCalls,
                   useComments, commentCalls, mounted, effectPending, writes>>

\* ---------------------------------------------------------- write operations
\* The operations that submit an instruction, and the hook each belongs to.
WriteOps ==
    {"createPost", "deletePost", "addComment", "followUser", "unfollowUser",
     "updateProfile"}

WriteHook(op) ==
    CASE op \in {"createPost", "deletePost"} -> "usePost"
      [] op = "addComment" -> "useComments"
      [] op \in {"followUser", "unfollowUser"} -> "useProfiles"
      [] OTHER -> "useUserProfile"

\* The check of wallet, program and profilePda left out: the instruction is
\* submitted in any case.
submitWrite_NoCheck(q, op, cw, cp, arg) ==
    [q |-> Append(q, [op |-> op, wallet |-> cw, profile |-> cp, arg |-> arg]),
     out |-> "submitted"]

\* A write operation up to its await of .rpc(), for a render with wallet cw and
\* profile cp: without wallet, program or profilePda it throws (deletePost
\* returns); arg is the post of addComment.
submitWrite(q, op, cw, cp, arg) ==
    IF cw = None
    THEN [q |-> q, out |-> IF op = "deletePost" THEN "nowallet" ELSE "threw"]
    ELSE [q |-> Append(q, [op |-> op, wallet |-> cw, profile |-> cp, arg |-> arg]),
          out |-> "submitted"]

\* A caller invokes a write operation of the current render.
SubmitWrite(op, arg) ==
    /\ mounted = WriteHook(op)
    /\ ~effectPending
    /\ Len(writes) < MaxWrites
    /\ Suspended < MaxInFlight
    /\ LET r == submitWrite(writes, op, wallet, useUserProfile.profile, arg)
       IN  /\ writes' = r.q
           /\ last' = [Event(op, mounted, r.out) EXCEPT !.arg = arg]
    /\ UNCHANGED <<wallet, useUserProfile, profileCalls, usePost, postCalls, useComments,
                   commentCalls, useProfiles, profilesCalls, owner, mounted, effectPending>>

\* A catch block that stores the message in the hook's error state.
writeCatch_SetsError(h) == [h EXCEPT !.error = "error"]

\* The catch block of a write operation, on the state h of its hook: the message
\* goes into the returned {success: false, error}, not into the hook's state.
writeCatch(h) == h

\* The program rejects the instruction (or the wallet refuses to sign).
RejectWrite(i) ==
    /\ i \in DOMAIN writes
    /\ writes' = RemoveAt(writes, i)
    /\ useUserProfile' = IF mounted = "useUserProfile"
                         THEN writeCatch(useUserProfile) ELSE useUserProfile
    /\ usePost' = IF mounted = "usePost" THEN writeCatch(usePost) ELSE usePost
    /\ useComments' = IF mounted = "useComments" THEN writeCatch(useComments) ELSE useComments
    /\ useProfiles' = IF mounted = "useProfiles" THEN writeCatch(useProfiles) ELSE useProfiles
    /\ last' = [Event(writes[i].op, mounted, "rejected") EXCEPT !.arg = writes[i].arg]
    /\ UNCHANGED <<wallet, profileCalls, postCalls, commentCalls, profilesCalls, owner,
                   mounted, effectPending>>

\* The instruction is confirmed: createPost and deletePost return {success: true},
\* the others first call the fetch function their render captured.
AcceptWrite(i) ==
    /\ i \in DOMAIN writes
    /\ writes' = RemoveAt(writes, i)
    /\ LET c == writes[i]
           up == fetchProfile(useUserProfile, profileCalls, c.wallet, c.profile)
           cm == fetchCommentsForPost(useComments, commentCalls, c.wallet, c.arg)
           pr == fetchAllProfiles(useProfiles, profilesCalls, c.wallet)
       IN  /\ IF c.op = "updateProfile"
              THEN useUserProfile' = up.h /\ profileCalls' = up.q
              ELSE UNCHANGED <<useUserProfile, profileCalls>>
           /\ IF c.op = "addComment"
              THEN /\ useComments' = cm.h
                   /\ commentCalls' = IF cm.out = "dropped"
                                      THEN MarkShared(cm.q, c.arg) ELSE cm.q
              ELSE UNCHANGED <<useComments, commentCalls>>
           /\ IF c.op \in {"followUser", "unfollowUser"}
              THEN useProfiles' = pr.h /\ profilesCalls' = pr.q
              ELSE UNCHANGED <<useProfiles, profilesCalls>>
           /\ last' = [Event(c.op, mounted, "accepted") EXCEPT
                         !.arg = c.arg,
                         !.refresh = CASE c.op = "updateProfile" -> up.out
                                       [] c.op = "addComment" -> cm.out
                                       [] c.op \in {"followUser", "unfollowUser"} -> pr.out
                                       [] OTHER -> None]
    /\ UNCHANGED <<wallet, usePost, postCalls, owner, mounted, effectPending>>

\* ------------------------------------------------------- content-keyed PDAs
\* Media URIs and comment texts a caller can submit.
Texts == {"t1", "t2", "t3"}

\* A digest that does not depend on the text.
digest_Constant(text) == <<0, 0, 0, 0>>

\* crypto.createHash('sha256').update(text).digest().slice(0, 4): four bytes,
\* taken to be different for the different texts of Texts.
digest(text) ==
    CASE text = "t1" -> <<202, 151, 129, 18>>
      [] text = "t2" -> <<62, 35, 232, 22>>
      [] OTHER       -> <<46, 125, 44, 3>>

\* derivePostPda of a render with wallet cw (profilePda is cw's profile address).
derivePostPda(cw, mediaUri) ==
    IF cw = None THEN Null
    ELSE findProgramAddressSync(<<"post", cw, digest(mediaUri),
                                  findProgramAddressSync(<<"profile", cw>>)>>)

\* deriveCommentPda of a render with wallet cw.
deriveCommentPda(cw, postPda, content) ==
    IF cw = None THEN Null
    ELSE findProgramAddressSync(<<"comment", postPda, cw, digest(content)>>)

\* The derivations made so far, the last two of them kept (history).
Derived(text, postPda, pda) ==
    LET all == Append(last.value, [text |-> text, post |-> postPda, pda |-> pda])
    IN  IF Len(all) > 2 THEN Tail(all) ELSE all

\* A caller invokes derivePostPda (usePost returns it; createPost, fetchPost and
\* deletePost call it).
DerivePost(mediaUri) ==
    /\ mounted = "usePost"
    /\ last' = [Event("derivePostPda", mounted, "derived") EXCEPT
                  !.arg = mediaUri,
                  !.value = Derived(mediaUri, None, derivePostPda(wallet, mediaUri))]
    /\ UNCHANGED <<wallet, useUserProfile, profileCalls, usePost, postCalls, useComments,
                   commentCalls, useProfiles, profilesCalls, owner, mounted,
                   effectPending, writes>>

\* addComment calls deriveCommentPda.
DeriveComment(postPda, content) ==
    /\ mounted = "useComments"
    /\ last' = [Event("deriveCommentPda", mounted, "derived") EXCEPT
                  !.arg = content,
                  !.value = Derived(content, postPda,
                                    deriveCommentPda(wallet, postPda, content))]
    /\ UNCHANGED <<wallet, useUserProfile, profileCalls, usePost, postCalls, useComments,
                   commentCalls, useProfiles, profilesCalls, owner, mounted,
                   effectPending, writes>>

\* ------------------------------------------------------------ the wallet
Hooks == {"useUserProfile", "usePost", "useComments", "useProfiles"}

\* The wallet adapter connects, disconnects or switches identity and React
\* renders: wallet, program and profilePda change, which the effects of
\* useUserProfile and useProfiles depend on (usePost and useComments have none).
SetWallet(w) ==
    /\ w # wallet
    /\ ~effectPending
    /\ mounted = "useUserProfile" => Suspended < MaxInFlight
    /\ mounted = "useProfiles" => Suspended < MaxInFlight
    /\ wallet' = w
    /\ profileCalls' = MarkStale(profileCalls, w)
    /\ postCalls' = MarkStale(postCalls, w)
    /\ commentCalls' = MarkStale(commentCalls, w)
    /\ profilesCalls' = MarkStale(profilesCalls, w)
    /\ effectPending' = (mounted \in {"useUserProfile", "useProfiles"})
    /\ last' = [Event("setWallet", mounted, "rendered") EXCEPT
                  !.arg = w, !.trigger = "wallet"]
    /\ UNCHANGED <<useUserProfile, usePost, useComments, useProfiles, owner, mounted, writes>>

\* React runs the pending effect of the mounted hook, before the next event of
\* the wallet or the page; only an answer of the network can arrive first.
RunEffect ==
    /\ effectPending
    /\ effectPending' = FALSE
    /\ LET up == useUserProfileEffect(useUserProfile, profileCalls, wallet)
           pr == useProfilesEffect(useProfiles, profilesCalls, wallet)
       IN  /\ IF mounted = "useUserProfile"
              THEN useUserProfile' = up.h /\ profileCalls' = up.q
              ELSE UNCHANGED <<useUserProfile, profileCalls>>
           /\ IF mounted = "useProfiles"
              THEN useProfiles' = pr.h /\ profilesCalls' = pr.q
              ELSE UNCHANGED <<useProfiles, profilesCalls>>
           /\ owner' = [owner EXCEPT
                  !.profile = IF mounted = "useUserProfile" /\ up.h.profile = Null
                              THEN None ELSE @,
                  !.profiles = IF mounted = "useProfiles" /\ pr.h.profiles = <<>>
                               THEN None ELSE @]
           /\ last' = [Event("effect", mounted,
                              IF mounted = "useUserProfile" THEN up.out ELSE pr.out)
                         EXCEPT !.arg = wallet, !.trigger = last.trigger]
    /\ UNCHANGED <<wallet, usePost, postCalls, useComments, commentCalls, mounted, writes>>

\* ------------------------------------------------------- the state machine
\* A hook instance right after its first render with no wallet connected: the
\* effects of useUserProfile and useProfiles have set what useState already held.
Init ==
    /\ wallet = None
    /\ mounted \in Hooks
    /\ useUserProfile = [profile |-> Null, isLoading |-> FALSE, error |-> None,
                         fetchingRef |-> FALSE, lastWalletRef |-> None]
    /\ profileCalls = <<>>
    /\ usePost = [post |-> Null, allPosts |-> <<>>, posts |-> <<>>, isLoading |-> FALSE,
                  error |-> None, fetchingRef |-> FALSE]
    /\ postCalls = <<>>
    /\ useComments = [comments |-> <<>>, isLoading |-> FALSE, error |-> None,
                      fetchingRef |-> None]
    /\ commentCalls = <<>>
    /\ useProfiles = [profiles |-> <<>>, isLoading |-> FALSE, error |-> None,
                      fetchingRef |-> FALSE]
    /\ profilesCalls = <<>>
    /\ owner = [profile |-> None, allPosts |-> None, posts |-> None, comments |-> None,
                profiles |-> None]
    /\ last = Event("mount", mounted, "init")
    /\ effectPending = FALSE
    /\ writes = <<>>

ProfileOutcomes == {"ok", "notfound", "error"}

SettleProfile == \E i \in DOMAIN profileCalls, o \in ProfileOutcomes : ResolveProfile(i, o)

\* The scan results followed together with wallet changes and overlapping calls:
\* no post, or two posts of one creator in ascending order of creation.
PostScanSamples ==
    { <<>>,
      <<[publicKey |-> 1, creator |-> "A", createdAt |-> 10],
        [publicKey |-> 3, creator |-> "A", createdAt |-> 20]>> }

\* The comment scans followed together with wallet changes: none, or two comments
\* in descending order of creation.
CommentScanSamples(postKey) ==
    { <<>>,
      <<[publicKey |-> 2, post |-> postKey, content |-> "y", createdAt |-> 20],
        [publicKey |-> 1, post |-> postKey, content |-> "x", createdAt |-> 10]>> }

SettlePostScan(results) ==
    \E i \in DOMAIN postCalls, v \in results :
        ResolvePostScan(i, Ok(v)) \/ ResolvePostScan(i, Failure)

SettlePostBatch ==
    \E i \in DOMAIN postCalls :
        \E r \in BatchResults(Len(postCalls[i].pdas)) : ResolvePostBatch(i, r)

SettleUserPosts(results) ==
    \E i \in DOMAIN postCalls :
        \E v \in UserPostScanResults(results, postCalls[i].wallet) :
            ResolveUserPosts(i, Ok(v)) \/ ResolveUserPosts(i, Failure)

SettleComments(results) ==
    \E i \in DOMAIN commentCalls :
        \E v \in results[commentCalls[i].post] :
            ResolveComments(i, Ok(v)) \/ ResolveComments(i, Failure)

SettleProfilesScan ==
    \E i \in DOMAIN profilesCalls, v \in ProfileScanResults :
        ResolveProfilesScan(i, Ok(v)) \/ ResolveProfilesScan(i, Failure)

SettleProfilesBatch ==
    \E i \in DOMAIN profilesCalls :
        \E r \in FollowResults(Len(profilesCalls[i].pdas)) : ResolveProfilesBatch(i, r)

SettlePost ==
    \E i \in DOMAIN postCalls : ResolvePost(i, Ok(<<>>)) \/ ResolvePost(i, Failure)

\* A caller invokes one of the write operations; addComment names a post.
CallWrite ==
    \E op \in WriteOps :
        \E arg \in (IF op = "addComment" THEN PostKeys ELSE {None}) : SubmitWrite(op, arg)

SettleWrite == \E i \in DOMAIN writes : RejectWrite(i) \/ AcceptWrite(i)

Next ==
    \/ \E w \in Wallets \cup {None} : SetWallet(w)
    \/ RunEffect
    \/ RefetchProfile
    \/ SettleProfile
    \/ FetchAllPosts
    \/ FetchAllUserPosts
    \/ SettlePostScan(PostScanSamples)
    \/ SettlePostBatch
    \/ SettleUserPosts(PostScanSamples)
    \/ \E postKey \in PostKeys : FetchCommentsForPost(postKey)
    \/ SettleComments([k \in PostKeys |-> CommentScanSamples(k)])
    \/ RefetchProfiles
    \/ SettleProfilesScan
    \/ SettleProfilesBatch

Spec == Init /\ [][Next]_vars

\* The hooks with their write operations and fetchPost as well.
WriteNext ==
    \/ Next
    \/ FetchPost
    \/ SettlePost
    \/ CallWrite
    \/ SettleWrite

WriteSpec == Init /\ [][WriteNext]_vars

\* Every remote call eventually returns (the RPC client answers or times out),
\* and React runs every pending effect.
FairSpec ==
    /\ Spec
    /\ WF_vars(RunEffect)
    /\ WF_vars(SettleProfile)
    /\ WF_vars(SettlePostScan(PostScanSamples))
    /\ WF_vars(SettlePostBatch)
    /\ WF_vars(SettleUserPosts(PostScanSamples))
    /\ WF_vars(SettleComments([k \in PostKeys |-> CommentScanSamples(k)]))
    /\ WF_vars(SettleProfilesScan)
    /\ WF_vars(SettleProfilesBatch)

\* One hook instance mounted under a connected wallet that stays connected, its
\* fetch cycles fed every scan result up to the bounds: the state after the first
\* render, when the effect of useProfiles has issued fetchAllProfiles.
CycleHooks == {"usePost", "useComments", "useProfiles"}

CycleInit ==
    /\ wallet \in Wallets
    /\ mounted \in CycleHooks
    /\ useUserProfile = [profile |-> Null, isLoading |-> FALSE, error |-> None,
                         fetchingRef |-> FALSE, lastWalletRef |-> None]
    /\ profileCalls = <<>>
    /\ usePost = [post |-> Null, allPosts |-> <<>>, posts |-> <<>>, isLoading |-> FALSE,
                  error |-> None, fetchingRef |-> FALSE]
    /\ postCalls = <<>>
    /\ useComments = [comments |-> <<>>, isLoading |-> FALSE, error |-> None,
                      fetchingRef |-> None]
    /\ commentCalls = <<>>
    /\ LET pr == useProfilesEffect([profiles |-> <<>>, isLoading |-> FALSE,
                                    error |-> None, fetchingRef |-> FALSE], <<>>, wallet)
       IN  IF mounted = "useProfiles"
           THEN useProfiles = pr.h /\ profilesCalls = pr.q
           ELSE /\ useProfiles = [profiles |-> <<>>, isLoading |-> FALSE, error |-> None,
                                  fetchingRef |-> FALSE]
                /\ profilesCalls = <<>>
    /\ owner = [profile |-> None, allPosts |-> None, posts |-> None, comments |-> None,
                profiles |-> None]
    /\ last = Event("mount", mounted, "init")
    /\ effectPending = FALSE
    /\ writes = <<>>

CycleNext ==
    \/ FetchAllPosts
    \/ SettlePostScan(PostScanResults)
    \/ SettlePostBatch
    \/ \E postKey \in PostKeys : FetchCommentsForPost(postKey)
    \/ SettleComments([k \in PostKeys |-> CommentScanResults(k)])
    \/ RefetchProfiles
    \/ SettleProfilesScan
    \/ SettleProfilesBatch

CycleSpec == CycleInit /\ [][CycleNext]_vars

\* The address derivations of usePost and useComments alone, for a render with
\* any wallet or none, applied to every media URI, post and comment text.
DeriveInit ==
    /\ Init
    /\ mounted \in {"usePost", "useComments"}

DeriveNext ==
    \/ \E w \in Wallets : wallet = None /\ last.op = "mount" /\ SetWallet(w)
    \/ \E mediaUri \in Texts : DerivePost(mediaUri)
    \/ \E postPda \in PostKeys, content \in Texts : DeriveComment(postPda, content)

DeriveSpec == DeriveInit /\ [][DeriveNext]_vars

\* ================================================================ claims
PostCycles == {i \in DOMAIN postCalls : postCalls[i].fn = "fetchAllPosts"}

\* C1: on one hook instance, calls of fetchAllPosts, fetchAllProfiles and
\* fetchProfile made while an earlier call of the same operation has not resolved
\* issue no further remote read: at no moment are two fetch cycles of the same
\* operation suspended, and a dropped call leaves exactly the one it ran into.
C1_AtMostOneRead ==
    /\ Cardinality(PostCycles) <= 1
    /\ Len(profilesCalls) <= 1
    /\ Len(profileCalls) <= 1
    /\ (last.op = "fetchAllPosts" /\ last.outcome = "dropped") => Cardinality(PostCycles) = 1
    /\ (last.op = "fetchAllProfiles" /\ last.outcome = "dropped") => Len(profilesCalls) = 1
    /\ (last.op = "fetchProfile" /\ last.outcome = "dropped") => Len(profileCalls) = 1

\* A fetchAllPosts call was dropped while the scan of an earlier one is outstanding.
C1_Witness ==
    /\ last.op = "fetchAllPosts" /\ last.outcome = "dropped"
    /\ \E i \in PostCycles : postCalls[i].pc = "scan"

\* C2 (as claimed): for any sequence of fetchCommentsForPost calls, no two scans
\* for the same post are outstanding at the same time.
C2_NoTwoScansForOnePost ==
    \A i, j \in DOMAIN commentCalls :
        i # j => commentCalls[i].post # commentCalls[j].post

\* C3: a fetchCommentsForPost(P) that directly follows a fetchCommentsForPost(P)
\* which issued a scan issues none, and when a scan settles with a comment list
\* the comments state holds exactly the comments of that list, all of post P.
C3_BackToBack ==
    /\ [][(/\ last.op = "fetchCommentsForPost" /\ last.outcome = "issued"
            /\ last'.op = "fetchCommentsForPost" /\ last'.arg = last.arg)
           => (last'.outcome = "dropped" /\ Len(commentCalls') = Len(commentCalls))]_vars
    /\ []((last.op = "resolveComments" /\ last.outcome = "ok")
           => /\ Len(useComments.comments) = Len(last.value)
              /\ \A i \in DOMAIN last.value :
                    \E j \in DOMAIN useComments.comments :
                        /\ useComments.comments[j].post = last.arg
                        /\ useComments.comments[j].content = last.value[i].content
                        /\ useComments.comments[j].createdAt = last.value[i].createdAt)

\* A scan that a second, dropped call relied on settled with two comments.
C3_Witness ==
    /\ last.op = "resolveComments" /\ last.outcome = "ok" /\ last.shared
    /\ Len(last.value) = 2
    /\ Len(useComments.comments) = 2

\* The guard is clear right after the step that ended a fetch cycle.
GuardClearAfterCycle ==
    /\ (last.op = "resolvePostBatch" \/ (last.op = "resolvePostScan" /\ last.outcome = "error"))
           => ~usePost.fetchingRef
    /\ (last.op = "resolveProfilesBatch"
            \/ (last.op = "resolveProfilesScan" /\ last.outcome = "error"))
           => ~useProfiles.fetchingRef
    /\ last.op = "resolveProfile" => ~useUserProfile.fetchingRef
    /\ last.op = "resolveComments" => useComments.fetchingRef = None

\* Some in-flight guard is set (one hook is mounted, so at most one of them).
GuardHeld ==
    \/ usePost.fetchingRef
    \/ useProfiles.fetchingRef
    \/ useUserProfile.fetchingRef
    \/ useComments.fetchingRef # None

\* C4: every fetch that sets an in-flight guard clears it when its remote reads
\* settle, with a value, with not-found or with a rejection at either read; so
\* when every remote call returns, a set guard is eventually clear again.
C4_GuardReleased ==
    /\ []GuardClearAfterCycle
    /\ GuardHeld ~> ~GuardHeld

\* A fetchAllPosts cycle ended by a rejected batch read, its guard clear.
C4_Witness ==
    /\ last.op = "resolvePostBatch" /\ last.outcome = "error"
    /\ ~usePost.fetchingRef
    /\ usePost.error # None

\* The collections a hook holds that are not empty.
Populated ==
    {c \in {"profile"} : useUserProfile.profile # Null}
        \cup {c \in {"allPosts"} : usePost.allPosts # <<>>}
        \cup {c \in {"posts"} : usePost.posts # <<>>}
        \cup {c \in {"comments"} : useComments.comments # <<>>}
        \cup {c \in {"profiles"} : useProfiles.profiles # <<>>}

\* C5: once the render of a wallet change and its effects are done, no collection
\* holds a snapshot that was populated under another identity than the current one.
C5_NoSnapshotOfOtherActor ==
    (wallet \in Wallets /\ ~effectPending) => \A c \in Populated : owner[c] = wallet

\* C6: a fetch that a disconnect overtook stores nothing when it settles.
C6_StaleResultDiscarded == last.stale => ~last.applied

\* C7: after a disconnect and the effects it triggers, every collection is empty.
C7_DisconnectClearsAll ==
    (wallet = None /\ ~effectPending /\ last.op \in {"setWallet", "effect"})
        => Populated = {}

\* C8: a fetchAllPosts or fetchAllProfiles cycle has issued no multi-address read
\* while its scan is outstanding and exactly one from the scan's answer on,
\* whatever the number of scanned records and of unique related keys.
C8_OneBatchRead ==
    /\ \A i \in DOMAIN postCalls :
          postCalls[i].reads = IF postCalls[i].pc = "scan" THEN 0 ELSE 1
    /\ \A i \in DOMAIN profilesCalls :
          profilesCalls[i].reads = IF profilesCalls[i].pc = "scan" THEN 0 ELSE 1
    /\ last.op \in {"resolvePostBatch", "resolveProfilesBatch"} => last.reads = 1

\* A cycle of two posts of one creator ended after one read of one address.
C8_Witness ==
    /\ last.op = "resolvePostBatch" /\ last.outcome = "ok"
    /\ Len(last.value) = 2 /\ Len(last.pdas) = 1
    /\ last.reads = 1

\* The label `User <first 8 characters>...` of a creator.
PlaceholderLabel(creator) ==
    <<"U", "s", "e", "r", " ">> \o SubSeq(toString(creator), 1, 8) \o <<".", ".", ".">>

\* C9: when the batch read answers, whatever it answers, the stored list has
\* exactly one entry for every scanned post, and every post of a creator whose
\* profile slot is null or does not decode carries the placeholder label.
C9_PlaceholderNoDrop ==
    (last.op = "resolvePostBatch" /\ last.outcome = "ok") =>
        /\ Len(usePost.allPosts) = Len(last.value)
        /\ \A i \in DOMAIN last.value :
              Cardinality({j \in DOMAIN usePost.allPosts :
                              usePost.allPosts[j].publicKey = last.value[i].publicKey}) = 1
        /\ \A k \in DOMAIN last.accounts :
              (last.accounts[k] = Null \/ last.accounts[k].data.kind # "userProfile") =>
                  \A j \in DOMAIN usePost.allPosts :
                      last.pdas[k] = [seeds |-> <<"profile", usePost.allPosts[j].creator>>]
                          => usePost.allPosts[j].creatorHandle
                                 = PlaceholderLabel(usePost.allPosts[j].creator)

\* Two posts of two creators, one profile absent and one undecodable: both posts
\* are stored with their placeholders.
C9_Witness ==
    /\ last.op = "resolvePostBatch" /\ last.outcome = "ok"
    /\ Len(last.value) = 2 /\ Len(last.accounts) = 2
    /\ last.accounts[1] = Null
    /\ last.accounts[2] # Null /\ last.accounts[2].data.kind = "garbage"
    /\ Len(usePost.allPosts) = 2
    /\ \A j \in 1..2 :
          usePost.allPosts[j].creatorHandle = PlaceholderLabel(usePost.allPosts[j].creator)

\* C10: in allPosts every entry is at least as recent as the entry after it.
C10_SortedDescending ==
    \A i \in 1..(Len(usePost.allPosts) - 1) :
        usePost.allPosts[i].createdAt >= usePost.allPosts[i + 1].createdAt

\* A scan that answered oldest first was stored newest first.
C10_Witness ==
    /\ last.op = "resolvePostBatch" /\ last.outcome = "ok"
    /\ Len(last.value) = 2
    /\ last.value[1].createdAt < last.value[2].createdAt
    /\ usePost.allPosts[1].publicKey = last.value[2].publicKey
    /\ usePost.allPosts[2].publicKey = last.value[1].publicKey

\* C11 (as claimed): in allPosts, of two adjacent entries with the same creation
\* time the one with the smaller address comes first, whatever the scan's order.
C11_TiesByAddress ==
    \A i \in 1..(Len(usePost.allPosts) - 1) :
        usePost.allPosts[i].createdAt = usePost.allPosts[i + 1].createdAt
            => usePost.allPosts[i].publicKey < usePost.allPosts[i + 1].publicKey

\* C12: when a comment scan settles with a list, the stored comments are ordered
\* oldest first and are exactly the scanned comments, each of them once.
C12_CommentsAscending ==
    (last.op = "resolveComments" /\ last.outcome = "ok") =>
        /\ \A i \in 1..(Len(useComments.comments) - 1) :
              useComments.comments[i].createdAt <= useComments.comments[i + 1].createdAt
        /\ Len(useComments.comments) = Len(last.value)
        /\ \A i \in DOMAIN last.value :
              Cardinality({j \in DOMAIN useComments.comments :
                              /\ useComments.comments[j].content = last.value[i].content
                              /\ useComments.comments[j].createdAt = last.value[i].createdAt
                              /\ useComments.comments[j].post = last.value[i].post}) = 1

\* A scan that answered newest first was stored oldest first.
C12_Witness ==
    /\ last.op = "resolveComments" /\ last.outcome = "ok"
    /\ Len(last.value) = 2
    /\ last.value[1].createdAt > last.value[2].createdAt
    /\ useComments.comments[1].content = last.value[2].content
    /\ useComments.comments[2].content = last.value[1].content

\* C13: when the read of fetchProfile is rejected with "Account does not exist",
\* the cycle ends with profile null, error null, the guard and the loading flag
\* clear.
C13_NotFoundIsEmpty ==
    (last.op = "resolveProfile" /\ last.outcome = "notfound") =>
        /\ useUserProfile.profile = Null
        /\ useUserProfile.error = None
        /\ ~useUserProfile.fetchingRef
        /\ ~useUserProfile.isLoading

\* A fetchProfile cycle for a connected wallet ended with not-found.
C13_Witness ==
    /\ last.op = "resolveProfile" /\ last.outcome = "notfound"
    /\ wallet \in Wallets
    /\ useUserProfile.lastWalletRef = wallet
    /\ useUserProfile.profile = Null

\* The step taken last was the rejection of a read of one of the four fetches
\* with an error other than not-found (an Error object with a message).
FetchFailed ==
    /\ last.op \in {"resolvePostScan", "resolvePostBatch", "resolveComments",
                    "resolveProfilesScan", "resolveProfilesBatch", "resolveProfile"}
    /\ last.outcome = "error"

\* The steps of a fetch cycle other than its successful end: the call that issues
\* it, the scan's answer that leads to the batch read, and a rejection.
CycleStepBeforeSuccess ==
    \/ last.outcome = "issued"
    \/ last.op \in {"resolvePostScan", "resolveProfilesScan"}
    \/ FetchFailed

\* C14: a fetch cycle whose read fails with an error other than not-found sets the
\* hook's error state and no step of it touches the collection: the snapshot of
\* before the cycle is neither cleared nor partly overwritten.
C14_ErrorKeepsSnapshot ==
    /\ [][CycleStepBeforeSuccess' =>
             /\ useUserProfile'.profile = useUserProfile.profile
             /\ usePost'.allPosts = usePost.allPosts
             /\ useComments'.comments = useComments.comments
             /\ useProfiles'.profiles = useProfiles.profiles]_vars
    /\ [](FetchFailed =>
             /\ last.hook = "usePost" => usePost.error # None
             /\ last.hook = "useComments" => useComments.error # None
             /\ last.hook = "useProfiles" => useProfiles.error # None
             /\ last.hook = "useUserProfile" => useUserProfile.error # None)

\* The batch read of fetchAllPosts was rejected while allPosts held posts.
C14_Witness ==
    /\ last.op = "resolvePostBatch" /\ last.outcome = "error"
    /\ usePost.allPosts # <<>>
    /\ usePost.error # None

\* The read and write operations a caller can invoke.
CallOps ==
    {"fetchAllPosts", "fetchPost", "fetchAllUserPosts", "fetchProfile",
     "fetchCommentsForPost", "fetchAllProfiles"} \cup WriteOps

\* The step taken last was the invocation of an operation (not a later step of it).
Called == last.op \in CallOps /\ last.outcome \notin {"accepted", "rejected"}

\* C15: an operation invoked while no wallet is connected (so that there is no
\* program and no profilePda either) returns or throws at once, and such a call
\* issues no remote call, submits no instruction and sets no in-flight guard.
C15_FailFast ==
    /\ []((Called /\ wallet = None) => last.outcome \in {"nowallet", "threw"})
    /\ [][(Called' /\ last'.outcome \in {"nowallet", "threw"}) =>
             /\ UNCHANGED <<profileCalls, postCalls, commentCalls, profilesCalls, writes>>
             /\ usePost'.fetchingRef = usePost.fetchingRef
             /\ useComments'.fetchingRef = useComments.fetchingRef
             /\ useProfiles'.fetchingRef = useProfiles.fetchingRef
             /\ useUserProfile'.fetchingRef = useUserProfile.fetchingRef]_vars

\* createPost was invoked without a wallet and threw; nothing is suspended.
C15_Witness ==
    /\ last.op = "createPost" /\ last.outcome = "threw"
    /\ wallet = None
    /\ Suspended = 0

\* C16: when the program rejects a submitted instruction, the step that returns
\* {success: false, error} changes no collection, error state, loading flag or
\* guard of any hook and issues no fetch.
C16_RejectedWriteNoEffect ==
    [][last'.outcome = "rejected" =>
         UNCHANGED <<useUserProfile, usePost, useComments, useProfiles,
                     profileCalls, postCalls, commentCalls, profilesCalls>>]_vars

\* addComment was rejected while comments were stored and no fetch is suspended.
C16_Witness ==
    /\ last.op = "addComment" /\ last.outcome = "rejected"
    /\ useComments.comments # <<>>
    /\ commentCalls = <<>>

C18_NoAutomaticRetry ==
    ~(last.op = "effect" /\ last.trigger \in {"notfound", "error"}
        /\ last.outcome = "issued")

\* C19 (as claimed): when the instruction of updateProfile, addComment, followUser
\* or unfollowUser is confirmed, the refresh fetch that follows issues a remote
\* read: it is neither skipped as fresh nor dropped by the in-flight guard.
C19_RefreshAfterWrite ==
    (last.outcome = "accepted"
        /\ last.op \in {"updateProfile", "addComment", "followUser", "unfollowUser"})
        => last.refresh = "issued"

\* C19, the case of updateProfile alone: the refresh is never skipped as fresh.
C19_RefreshNotSkipped ==
    (last.outcome = "accepted" /\ last.op = "updateProfile") => last.refresh # "fresh"

\* C20 (as claimed): when a comment scan settles after a scan for a different post,
\* requested after it, has stored its result, the comments held afterwards are all
\* comments of the later-requested post: the earlier request's result never
\* replaces them.
C20_LatestRequestWins ==
    (last.op = "resolveComments" /\ last.overtakenBy \notin {None, last.arg})
        => \A i \in DOMAIN useComments.comments :
               useComments.comments[i].post = last.overtakenBy

\* The creators of the scanned posts.
CreatorsOf(resp) == {resp[k].creator : k \in DOMAIN resp}

\* C21: from the scan's answer on, the address list of a fetchAllPosts cycle's
\* multi-address read has no duplicate, is as long as the number of distinct
\* creators of the scanned posts, and holds the profile address of each of them.
C21_OneAddressPerCreator ==
    \A i \in DOMAIN postCalls :
        (postCalls[i].fn = "fetchAllPosts" /\ postCalls[i].pc = "batch") =>
            LET c == postCalls[i]
            IN  /\ Distinct(c.pdas)
                /\ Len(c.pdas) = Cardinality(CreatorsOf(c.resp))
                /\ {c.pdas[k] : k \in DOMAIN c.pdas}
                      = {findProgramAddressSync(<<"profile", x>>) : x \in CreatorsOf(c.resp)}

\* The scan answered with two posts of one creator: one address is read.
C21_Witness ==
    \E i \in DOMAIN postCalls :
        /\ postCalls[i].fn = "fetchAllPosts" /\ postCalls[i].pc = "batch"
        /\ Len(postCalls[i].resp) = 2
        /\ postCalls[i].resp[1].creator = postCalls[i].resp[2].creator
        /\ Len(postCalls[i].pdas) = 1

\* The slots of the batch read's answer that belong to the profile address derived
\* from the creator of a stored post and hold an account that decodes.
DecodedSlots(post) ==
    {k \in DOMAIN last.accounts :
        /\ last.pdas[k] = findProgramAddressSync(<<"profile", post.creator>>)
        /\ last.accounts[k] # Null
        /\ ~DecodeThrows(last.accounts[k])}

\* C22 (as claimed): when the batch read answers, every stored post whose creator's
\* profile decoded carries the handle decoded from the slot of its own creator's
\* profile address, and all posts of one creator carry the same handle.
C22_HandleOfOwnCreator ==
    (last.op = "resolvePostBatch" /\ last.outcome = "ok") =>
        /\ \A j \in DOMAIN usePost.allPosts :
              \A k \in DecodedSlots(usePost.allPosts[j]) :
                  usePost.allPosts[j].creatorHandle = last.accounts[k].data.handle
        /\ \A i, j \in DOMAIN usePost.allPosts :
              usePost.allPosts[i].creator = usePost.allPosts[j].creator
                  => usePost.allPosts[i].creatorHandle = usePost.allPosts[j].creatorHandle

\* C22, the decoded handles that are not the empty string: each is attached to the
\* posts of its own creator, and to no post of another creator's slot.
C22_NonEmptyHandleOfOwnCreator ==
    (last.op = "resolvePostBatch" /\ last.outcome = "ok") =>
        /\ \A j \in DOMAIN usePost.allPosts :
              \A k \in DecodedSlots(usePost.allPosts[j]) :
                  last.accounts[k].data.handle # <<>>
                      => usePost.allPosts[j].creatorHandle = last.accounts[k].data.handle
        /\ \A i, j \in DOMAIN usePost.allPosts :
              usePost.allPosts[i].creator = usePost.allPosts[j].creator
                  => usePost.allPosts[i].creatorHandle = usePost.allPosts[j].creatorHandle

\* The slots of the follow batch read's answer that belong to the follow address
\* derived from the ordered pair (actor, authority) and hold an account.
FollowSlots(actor, authority) ==
    {k \in DOMAIN last.accounts :
        /\ last.pdas[k] = findProgramAddressSync(<<"follow", actor, authority>>)
        /\ last.accounts[k] # Null}

\* C23: when the follow batch read answers, the stored list has one entry for every
\* scanned profile but the actor's own, none for the actor, and in every entry
\* isFollowing is true exactly when the read returned an account at the follow
\* address of (actor, authority), and followPda is non-null exactly when
\* isFollowing is true.
C23_FollowStatus ==
    (last.op = "resolveProfilesBatch" /\ last.outcome = "ok") =>
        LET actor == owner.profiles
            stored == useProfiles.profiles
        IN  /\ \A j \in DOMAIN stored : stored[j].authority # actor
            /\ {stored[j].authority : j \in DOMAIN stored}
                  = {last.allProfiles[k].authority : k \in DOMAIN last.allProfiles} \ {actor}
            /\ \A j \in DOMAIN stored :
                  /\ stored[j].isFollowing = (FollowSlots(actor, stored[j].authority) # {})
                  /\ (stored[j].followPda # Null) = stored[j].isFollowing

\* The scan answered with the actor's own profile and another one, and the batch
\* read found the follow account: the list holds the other profile, followed.
C23_Witness ==
    /\ last.op = "resolveProfilesBatch" /\ last.outcome = "ok"
    /\ Len(last.allProfiles) = 2
    /\ \E k \in DOMAIN last.allProfiles : last.allProfiles[k].authority = owner.profiles
    /\ Len(useProfiles.profiles) = 1
    /\ useProfiles.profiles[1].isFollowing
    /\ useProfiles.profiles[1].followPda # Null

\* Nothing of useUserProfile is left to run by itself: no read is outstanding and no
\* effect is pending, so only a caller or the wallet adapter can start a step.
ProfileQuiescent ==
    mounted = "useUserProfile" /\ profileCalls = <<>> /\ ~effectPending

\* C24 (as claimed): after an actor change during an outstanding profile fetch, the
\* hook does not come to rest before a read for the connected actor has been made:
\* whenever a wallet is connected and nothing is left to run, the last profile read
\* that resolved (lastWalletRef) was the connected actor's.
C24_ReadForNewActor ==
    (ProfileQuiescent /\ wallet \in Wallets) => useUserProfile.lastWalletRef = wallet

\* A fetchProfile call of the current render (by a caller or by the effect) that
\* passed the wallet check and the in-flight guard.
ProfileCallPassedGuards ==
    /\ last.hook = "useUserProfile"
    /\ last.op \in {"fetchProfile", "effect"}
    /\ last.outcome \in {"fresh", "issued"}

\* C25 (as claimed): a fetchProfile call that passed the guards issued no read
\* exactly when a profile is held and it was populated by a fetch of the requesting
\* actor; any other such call issued one read, for the requesting actor; and when a
\* read resolves, with whatever outcome, lastWalletRef is the actor that requested it.
C25_FreshIffOwnSnapshot ==
    /\ ProfileCallPassedGuards =>
          /\ (last.outcome = "fresh")
                = (useUserProfile.profile # Null /\ owner.profile = wallet)
          /\ last.outcome = "issued" =>
                (Len(profileCalls) = 1 /\ profileCalls[1].wallet = wallet)
    /\ last.op = "resolveProfile" => useUserProfile.lastWalletRef = last.arg

\* C25, with lastWalletRef in the place of the identity the held profile was
\* populated under: the test the code makes.
C25_FreshIffLastWalletRef ==
    /\ ProfileCallPassedGuards =>
          /\ (last.outcome = "fresh")
                = (useUserProfile.profile # Null /\ useUserProfile.lastWalletRef = wallet)
          /\ last.outcome = "issued" =>
                (Len(profileCalls) = 1 /\ profileCalls[1].wallet = wallet)
    /\ last.op = "resolveProfile" => useUserProfile.lastWalletRef = last.arg

\* C26 (as claimed): in each hook isLoading is true exactly when a remote read of
\* the hook's guarded fetch (fetchAllPosts, fetchProfile, fetchCommentsForPost,
\* fetchAllProfiles) is outstanding.
C26_LoadingAgreesWithReads ==
    /\ usePost.isLoading = (PostCycles # {})
    /\ useUserProfile.isLoading = (profileCalls # <<>>)
    /\ useComments.isLoading = (commentCalls # <<>>)
    /\ useProfiles.isLoading = (profilesCalls # <<>>)

\* C26, the hooks whose guard is a single flag: usePost, useUserProfile, useProfiles.
C26_LoadingAgreesSingleGuard ==
    /\ usePost.isLoading = (PostCycles # {})
    /\ useUserProfile.isLoading = (profileCalls # <<>>)
    /\ useProfiles.isLoading = (profilesCalls # <<>>)

====
